---- MODULE Spec2Model ----
(***************************************************************************)
(* mern-cli-gen: the `create` command (src/cli/commands/create.ts), the    *)
(* prompt flow (src/cli/prompts/projectPrompts.ts), option validation      *)
(* (src/utils/validation.ts) and the ProjectGenerator with its component   *)
(* generators and rollback (src/generators).                               *)
(*                                                                         *)
(* The destination directory <cwd>/<projectName> is the one shared         *)
(* resource.  Every create run is a process with a program counter; the    *)
(* awaits of the code are the points where other processes may act.        *)
(***************************************************************************)
EXTENDS Integers, Sequences, FiniteSets, TLC

VARIABLES
    fs,                 \* the destination root: [exists, dirs, files]
    missing,            \* template directories absent from the package
    pc,                 \* per run: position in createCommand / generate
    opts,               \* per run: CLIOptions as passed by the CLI
    projectName,        \* per run: the <project-name> argument
    config,             \* per run: ProjectConfig returned by the prompts
    context,            \* per run: ProjectGenerator.context
    createdFiles,       \* per run: ProjectGenerator.createdFiles
    createdDirectories, \* per run: ProjectGenerator.createdDirectories
    errors,             \* per run: ProjectGenerator.errors
    result,             \* per run: the GeneratorResult held by createCommand
    exitCode,           \* per run: process exit status (-1 while running)
    logged,             \* per run: the notable lines written to the console
    asked,              \* per run: the interactive questions put to the user
    postInvoked,        \* per run: post-generation steps that were invoked
    fsOps,              \* per run: kinds of filesystem mutation performed
    written,            \* per run: output paths this run has written
    clobbered,          \* files of one owner overwritten or removed by another
    cleanupCalls        \* history of cleanup() calls: before, after, threw

vars == <<fs, missing, pc, opts, projectName, config, context, createdFiles,
          createdDirectories, errors, result, exitCode, logged, asked,
          postInvoked, fsOps, written, clobbered, cleanupCalls>>

(***************************************************************************)
(* Bounds and small value sets                                             *)
(***************************************************************************)
Runs == {1, 2}

\* owner tag of content that no create run wrote
External == CHOOSE o \in 0..2 : o \notin Runs

\* number of foreign files another process may have put in the destination
MaxForeignFiles == 1

\* number of consecutive direct cleanup() calls explored on one generator
MaxCleanupCalls == 3

Undef == "undef"
Flag == {Undef, "true"}
Tri == {Undef, "true", "false"}
Modes == {"full", "frontend", "backend"}
Languages == {"typescript", "javascript"}
ModuleSystems == {"es6", "vanilla"}
CicdProviders == {"github", "none"}
Frontends == {"vite", "nextjs"}
\* the two databases of the Database type, and one value the CLI lets through
\* although the type does not list it
Databases == {"mongodb", "postgresql", "sqlite"}
Orms == {"mongoose", "prisma", "pg", "none"}
AuthTypes == {"jwt", "session", "passport", "none"}
StateManagements == {"zustand", "redux", "context", "none"}
PaymentProviders == {"stripe", "paystack", "mock", "none"}

Truthy(v) == v = "true"

\* one name that validate-npm-package-name accepts for new packages and one
\* it rejects (capital letters)
ProjectNames == {"my-app", "MyProject"}

NoConfig == [projectName |-> "", mode |-> "none", language |-> "none",
             moduleSystem |-> "none", frontend |-> "none", state |-> "none",
             database |-> "none", orm |-> "none", auth |-> "none",
             docker |-> FALSE, payment |-> "none", tailwind |-> FALSE,
             git |-> FALSE, cicd |-> "none", install |-> FALSE]

\* the context of a generator that has not been constructed
NoContext == [projectName |-> ""]

NoResult == [returned |-> FALSE, success |-> FALSE, createdFiles |-> <<>>,
             createdDirectories |-> <<>>, errors |-> <<>>]

EmptyFs == [exists |-> FALSE, dirs |-> {}, files |-> {}]

(***************************************************************************)
(* Filesystem primitives (src/utils/fileUtils.ts)                          *)
(***************************************************************************)
\* the directories a path lies in, relative to the destination root
Parents(path) == {SubSeq(path, 1, i) : i \in 1..(Len(path) - 1)}

Paths(files) == {f.path : f \in files}

\* fs.stat(dirPath).isDirectory(), false when stat rejects
directoryExists(f) == f.exists

\* fs.stat(filePath).isFile() for a path below the destination root
fileExists(f, path) == f.exists /\ path \in Paths(f.files)

\* fs.ensureDir: creates the directory and its parents, succeeds if present
createDirectory(f, dir) ==
    [f EXCEPT !.exists = TRUE, !.dirs = @ \cup Parents(dir) \cup
                                         (IF dir = <<>> THEN {} ELSE {dir})]

\* ensureDir(dirname(filePath)) followed by fs.writeFile: replaces the file
writeFile(f, path, owner) ==
    [exists |-> TRUE,
     dirs |-> f.dirs \cup Parents(path),
     files |-> {x \in f.files : x.path # path} \cup
               {[path |-> path, owner |-> owner]}]

\* fs.remove(dirPath): recursive delete of the destination root
removeDirectory(f) == EmptyFs

RECURSIVE writeAll(_, _, _)
writeAll(f, paths, owner) ==
    IF paths = <<>> THEN f
    ELSE writeAll(writeFile(f, Head(paths), owner), Tail(paths), owner)

\* the files of another owner that writing `paths` as `by` replaces
Overwritten(f, paths, by) ==
    {[path |-> x.path, owner |-> x.owner, by |-> by] :
        x \in {y \in f.files : y.owner # by /\
                               \E i \in 1..Len(paths) : paths[i] = y.path}}

\* the files of another owner that removing the root as `by` deletes
Removed(f, by) ==
    {[path |-> x.path, owner |-> x.owner, by |-> by] :
        x \in {y \in f.files : y.owner # by}}

SeqToSet(s) == {s[i] : i \in 1..Len(s)}

(***************************************************************************)
(* Validation (src/utils/validation.ts)                                    *)
(***************************************************************************)
\* result.validForNewPackages of validate-npm-package-name: lower-case names
\* are accepted, with or without a scope, capital letters are rejected
validateProjectName(name) == [valid |-> name \in {"my-app", "@acme/app"}]

\* joinPath(getCwd(), projectName) relative to the working directory: a
\* scoped name is a path of two segments
projectPath(name) ==
    IF name = "@acme/app" THEN <<"@acme", "app">> ELSE <<name>>

ErrLanguageConflict == "Cannot use both --typescript and --javascript"
ErrModuleConflict == "Cannot use both --es6 and --vanilla"
WarnVanillaIgnored == "--vanilla is ignored when using TypeScript (ES6 is auto-selected)"
WarnDatabaseIgnored == "--database is ignored in frontend mode"
WarnAuthIgnored == "--auth is ignored in frontend mode"
WarnFrontendIgnored == "--frontend is ignored in backend mode"
WarnStateIgnored == "--state is ignored in backend mode"

\* validateOptions with the module-system conflict check left out
validateOptionsLanguageOnly(o) ==
    LET e1 == IF Truthy(o.typescript) /\ Truthy(o.javascript)
              THEN <<ErrLanguageConflict>> ELSE <<>>
        w1 == IF Truthy(o.vanilla) /\ Truthy(o.typescript)
              THEN <<WarnVanillaIgnored>> ELSE <<>>
    IN [valid |-> Len(e1) = 0, errors |-> e1, warnings |-> w1]

\* the warnings for options the selected mode does not use,
\* validation.ts:48-67; an option that was not passed is falsy
modeWarnings(o) ==
    LET mode == IF o.mode = Undef THEN "full" ELSE o.mode
        warn(cond, text) == IF cond THEN <<text>> ELSE <<>>
    IN warn(mode = "frontend" /\ o.database # Undef, WarnDatabaseIgnored) \o
       warn(mode = "frontend" /\ o.auth # Undef, WarnAuthIgnored) \o
       warn(mode = "backend" /\ o.frontend # Undef, WarnFrontendIgnored) \o
       warn(mode = "backend" /\ o.state # Undef, WarnStateIgnored)

\* validateOptions with every warning counted as an error
validateOptionsWarningsAsErrors(o) ==
    LET e1 == IF Truthy(o.typescript) /\ Truthy(o.javascript)
              THEN <<ErrLanguageConflict>> ELSE <<>>
        e2 == IF Truthy(o.es6) /\ Truthy(o.vanilla)
              THEN <<ErrModuleConflict>> ELSE <<>>
        w1 == IF Truthy(o.vanilla) /\ Truthy(o.typescript)
              THEN <<WarnVanillaIgnored>> ELSE <<>>
        w == w1 \o modeWarnings(o)
    IN [valid |-> Len(e1 \o e2 \o w) = 0, errors |-> e1 \o e2 \o w, warnings |-> <<>>]

validateOptions(o) ==
    LET e1 == IF Truthy(o.typescript) /\ Truthy(o.javascript)
              THEN <<ErrLanguageConflict>> ELSE <<>>
        e2 == IF Truthy(o.es6) /\ Truthy(o.vanilla)
              THEN <<ErrModuleConflict>> ELSE <<>>
        w1 == IF Truthy(o.vanilla) /\ Truthy(o.typescript)
              THEN <<WarnVanillaIgnored>> ELSE <<>>
    IN [valid |-> Len(e1 \o e2) = 0, errors |-> e1 \o e2,
        warnings |-> w1 \o modeWarnings(o)]

(***************************************************************************)
(* Prompt flow (src/cli/prompts/projectPrompts.ts)                         *)
(***************************************************************************)
\* options.x || dflt for a string option
OrDefault(v, dflt) == IF v = Undef THEN dflt ELSE v

\* options.x ?? true, and the prompt default, for a boolean option
BoolOrTrue(v) == IF v = Undef THEN TRUE ELSE Truthy(v)

resolveMode(o, a) ==
    IF ~o.yes /\ o.mode = Undef THEN a.mode ELSE OrDefault(o.mode, "full")

resolveLanguage(o, a) ==
    IF ~o.yes /\ o.typescript = Undef /\ o.javascript = Undef
    THEN a.language
    ELSE IF Truthy(o.javascript) THEN "javascript" ELSE "typescript"

\* resolveModuleSystem with the --vanilla flag consulted before the language
resolveModuleSystemFlagFirst(language, o, a) ==
    IF language = "javascript" /\ o.es6 = Undef /\ o.vanilla = Undef
    THEN a.moduleSystem
    ELSE IF Truthy(o.vanilla) THEN "vanilla" ELSE "es6"

resolveModuleSystem(language, o, a) ==
    IF language = "javascript" /\ o.es6 = Undef /\ o.vanilla = Undef
    THEN a.moduleSystem
    ELSE IF language = "typescript" THEN "es6"
    ELSE IF Truthy(o.vanilla) THEN "vanilla" ELSE "es6"

FrontendModes == {"full", "frontend"}
BackendModes == {"full", "backend"}

\* projectPrompts.ts:153-175, the ORM or driver that goes with the database
resolveOrm(database, o, a) ==
    IF database = "mongodb" THEN "mongoose"
    ELSE IF database = "postgresql"
    THEN IF ~o.yes THEN a.orm ELSE OrDefault(o.orm, "prisma")
    ELSE "none"

\* the ProjectConfig built from the options and the answers the user gives
\* to the questions that are asked
runProjectPrompts(name, o, a) ==
    LET mode == resolveMode(o, a)
        language == resolveLanguage(o, a)
        front == ~o.yes /\ mode \in FrontendModes
        back == ~o.yes /\ mode \in BackendModes
        database == IF back THEN a.database ELSE OrDefault(o.database, "mongodb")
    IN [projectName |-> name,
        mode |-> mode,
        language |-> language,
        moduleSystem |-> resolveModuleSystem(language, o, a),
        frontend |-> IF front THEN a.frontend ELSE OrDefault(o.frontend, "vite"),
        state |-> IF front THEN a.state ELSE OrDefault(o.state, "zustand"),
        database |-> database,
        orm |-> resolveOrm(database, o, a),
        auth |-> IF back THEN a.auth ELSE OrDefault(o.auth, "jwt"),
        docker |-> IF ~o.yes THEN a.docker ELSE BoolOrTrue(o.docker),
        payment |-> IF back THEN a.payment ELSE OrDefault(o.payment, "none"),
        tailwind |-> IF front THEN a.tailwind ELSE BoolOrTrue(o.tailwind),
        git |-> IF ~o.yes THEN a.git ELSE BoolOrTrue(o.git),
        cicd |-> IF ~o.yes THEN a.cicd ELSE OrDefault(o.cicd, "none"),
        install |-> IF ~o.yes THEN a.install ELSE BoolOrTrue(o.install)]

\* the questions runProjectPrompts puts to the user on the way
questionsAsked(o, a) ==
    LET c == runProjectPrompts("", o, a)
        front == ~o.yes /\ c.mode \in FrontendModes
        back == ~o.yes /\ c.mode \in BackendModes
    IN (IF ~o.yes /\ o.mode = Undef THEN {"mode"} ELSE {}) \cup
       (IF ~o.yes /\ o.typescript = Undef /\ o.javascript = Undef
        THEN {"language"} ELSE {}) \cup
       (IF c.language = "javascript" /\ o.es6 = Undef /\ o.vanilla = Undef
        THEN {"moduleSystem"} ELSE {}) \cup
       (IF front THEN {"frontend", "state", "tailwind"} ELSE {}) \cup
       (IF back THEN {"database", "auth", "payment"} ELSE {}) \cup
       (IF c.database = "postgresql" /\ ~o.yes THEN {"orm"} ELSE {}) \cup
       (IF ~o.yes THEN {"docker", "git", "cicd", "install"} ELSE {})

\* what a user answers in the runs of the create command explored here; the
\* choices that select no other path of the generator are held at the first
\* entry of their list
Answers ==
    [mode : Modes, language : Languages, moduleSystem : ModuleSystems,
     frontend : {"vite"}, state : {"zustand"}, database : {"mongodb"},
     orm : {"prisma"}, auth : {"jwt"}, docker : BOOLEAN, payment : {"none"},
     tailwind : {TRUE}, git : BOOLEAN, cicd : CicdProviders, install : BOOLEAN]

\* the answers that decide the database, the ORM and the variant
AnyAnswers ==
    [mode : Modes, language : Languages, moduleSystem : ModuleSystems,
     frontend : {"vite"}, state : {"zustand"},
     database : {"mongodb", "postgresql"}, orm : {"prisma", "pg"},
     auth : {"jwt"}, docker : {TRUE}, payment : {"none"}, tailwind : {TRUE},
     git : {TRUE}, cicd : {"none"}, install : {TRUE}]

(***************************************************************************)
(* Template context and template paths (src/utils/templateUtils.ts)        *)
(***************************************************************************)
\* str.split('-'), each word with its first letter in upper case, joined by
\* a blank: the names used in this model and what the function makes of them
capitalizeWords(str) ==
    CASE str = "my-app" -> "My App"
      [] str = "MyProject" -> "MyProject"
      [] OTHER -> str

\* the fields createTemplateContext adds to, or replaces in, the config
DerivedFields ==
    {"orm", "projectNameCapitalized", "isTypeScript", "isES6", "scriptExt", "reactExt"}

\* createTemplateContext with the script extensions taken from the module
\* system
createTemplateContextExtByModule(c) ==
    LET isTypeScript == c.language = "typescript"
        isES6 == c.moduleSystem = "es6"
    IN [k \in DOMAIN c \cup DerivedFields |->
          CASE k = "orm" ->
                 IF c.orm # Undef THEN c.orm
                 ELSE IF c.database = "mongodb" THEN "mongoose" ELSE "none"
            [] k = "projectNameCapitalized" -> capitalizeWords(c.projectName)
            [] k = "isTypeScript" -> isTypeScript
            [] k = "isES6" -> isES6
            [] k = "scriptExt" -> IF isES6 /\ isTypeScript THEN "ts" ELSE "js"
            [] k = "reactExt" -> IF isES6 /\ isTypeScript THEN "tsx" ELSE "jsx"
            [] OTHER -> c[k]]

createTemplateContext(c) ==
    LET isTypeScript == c.language = "typescript"
        isES6 == c.moduleSystem = "es6"
    IN [k \in DOMAIN c \cup DerivedFields |->
          CASE k = "orm" ->
                 IF c.orm # Undef THEN c.orm
                 ELSE IF c.database = "mongodb" THEN "mongoose" ELSE "none"
            [] k = "projectNameCapitalized" -> capitalizeWords(c.projectName)
            [] k = "isTypeScript" -> isTypeScript
            [] k = "isES6" -> isES6
            [] k = "scriptExt" -> IF isTypeScript THEN "ts" ELSE "js"
            [] k = "reactExt" -> IF isTypeScript THEN "tsx" ELSE "jsx"
            [] OTHER -> c[k]]

\* getVariantPath with the module system consulted before the language
getVariantPathModuleFirst(c) ==
    IF c.moduleSystem = "vanilla" THEN "js-vanilla"
    ELSE IF c.language = "typescript" THEN "ts-es6" ELSE "js-es6"

getVariantPath(c) ==
    IF c.language = "typescript" THEN "ts-es6"
    ELSE IF c.moduleSystem = "es6" THEN "js-es6" ELSE "js-vanilla"

getFrontendTemplatePath(c) == <<"client", c.frontend, getVariantPath(c)>>
getBackendTemplatePath(c) == <<"server", "express", getVariantPath(c)>>
getCommonFrontendTemplatePath == <<"client", "common">>
getCommonBackendTemplatePath == <<"server", "common">>
getRootTemplatePath == <<"root">>
getDockerTemplatePath(type) == <<"docker", type>>
getCicdTemplatePath(provider) == <<"cicd", provider>>

Variants == {"ts-es6", "js-es6", "js-vanilla"}

\* the template directories shipped with the package
TemplateDirs ==
    {<<"client", "vite", v>> : v \in Variants} \cup
    {<<"client", "nextjs", "ts-es6">>} \cup
    {<<"server", "express", v>> : v \in Variants} \cup
    {<<"client", "common">>, <<"server", "common">>, <<"root">>,
     <<"docker", "root">>, <<"docker", "client">>, <<"docker", "server">>,
     <<"cicd", "github">>}

\* a template file: its path below the template directory without the .ejs
\* marker, and whether the file on disk carries the marker
T(path, ejs) == [path |-> path, ejs |-> ejs]

\* getAllFiles(templateDir): the files of a template directory in walk order
getAllFiles(dir) ==
    IF dir[1] = "client" /\ dir[2] \in Frontends
    THEN <<T(<<"context", IF dir[3] = "ts-es6" THEN "AppContext.tsx" ELSE "AppContext.jsx">>, FALSE),
           T(<<"package.json">>, TRUE),
           T(<<"src", IF dir[3] = "ts-es6" THEN "App.tsx" ELSE "App.jsx">>, FALSE),
           T(<<"store", IF dir[3] = "ts-es6" THEN "useStore.ts" ELSE "useStore.js">>, FALSE)>>
    ELSE IF dir = <<"client", "common">> THEN <<T(<<".gitignore">>, FALSE)>>
    ELSE IF dir[1] = "server" /\ dir[2] = "express"
    THEN <<T(<<".env.example">>, FALSE),
           T(<<"package.json">>, TRUE),
           T(<<"src", IF dir[3] = "ts-es6" THEN "app.ts" ELSE "app.js">>, FALSE),
           T(<<"src", "controllers",
               IF dir[3] = "ts-es6" THEN "authController.ts" ELSE "authController.js">>, TRUE),
           T(<<"src", "routes",
               IF dir[3] = "ts-es6" THEN "payment.ts" ELSE "payment.js">>, TRUE)>>
    ELSE IF dir = <<"server", "common">> THEN <<T(<<".gitignore">>, FALSE)>>
    ELSE IF dir = <<"root">>
    THEN <<T(<<".env.example">>, FALSE),
           T(<<"README.md">>, TRUE),
           T(<<"package.json">>, TRUE)>>
    ELSE IF dir = <<"docker", "root">> THEN <<T(<<"docker-compose.yml">>, TRUE)>>
    ELSE IF dir[1] = "docker" THEN <<T(<<"Dockerfile">>, TRUE)>>
    ELSE IF dir = <<"cicd", "github">>
    THEN <<T(<<".github", "workflows", "docker.yml">>, FALSE),
           T(<<".github", "workflows", "test.yml">>, TRUE)>>
    ELSE <<>>

\* relativePath.replace(/\.ejs$/, ''): the marker is dropped, the rest kept
outputFileName(t) == t.path

\* the relative output paths processTemplateDirectory writes, in order
RECURSIVE processTemplateDirectory(_)
processTemplateDirectory(templateFiles) ==
    IF templateFiles = <<>> THEN <<>>
    ELSE <<outputFileName(Head(templateFiles))>> \o
         processTemplateDirectory(Tail(templateFiles))

\* path.join(outputDir, outputFileName) relative to the destination root
RECURSIVE joinAll(_, _)
joinAll(prefix, paths) ==
    IF paths = <<>> THEN <<>>
    ELSE <<prefix \o Head(paths)>> \o joinAll(prefix, Tail(paths))

\* directoryExists(templatePath) for a directory of the package
templateExists(dir) == dir \in TemplateDirs \ missing

(***************************************************************************)
(* Initial states                                                          *)
(***************************************************************************)
ForeignNames == <<<<"package.json">>, <<"notes.txt">>, <<"src", "old.js">>>>

\* a destination directory that exists before the run, holding n files of
\* another owner
ForeignFs(n) ==
    writeAll([EmptyFs EXCEPT !.exists = TRUE], SubSeq(ForeignNames, 1, n), External)

DefaultOptions ==
    [mode |-> Undef, typescript |-> Undef, javascript |-> Undef, es6 |-> Undef,
     vanilla |-> Undef, frontend |-> Undef, database |-> Undef, orm |-> Undef,
     auth |-> Undef, state |-> Undef, tailwind |-> Undef, docker |-> Undef,
     payment |-> Undef, git |-> Undef, cicd |-> Undef, install |-> Undef,
     yes |-> TRUE, dryRun |-> FALSE]

\* the options a create run of the command is started with; the modes no
\* flag names here are chosen at the mode question
CommandOptions ==
    [mode : {Undef, "backend"}, typescript : Flag, javascript : Flag,
     es6 : Flag, vanilla : Flag, frontend : {Undef}, database : {Undef},
     orm : {Undef}, auth : {Undef}, state : {Undef}, tailwind : {Undef},
     docker : {Undef}, payment : {Undef}, git : {Undef}, cicd : {Undef},
     install : {Undef}, yes : BOOLEAN, dryRun : BOOLEAN]

\* template directories that may have been removed from the installation
RemovedTemplates ==
    {{}, {<<"server", "express", "ts-es6">>}, {<<"client", "common">>},
     {<<"client", "vite", "js-es6">>}, {<<"root">>}}

InitRun ==
    /\ createdFiles = [q \in Runs |-> <<>>]
    /\ createdDirectories = [q \in Runs |-> <<>>]
    /\ errors = [q \in Runs |-> <<>>]
    /\ result = [q \in Runs |-> NoResult]
    /\ exitCode = [q \in Runs |-> -1]
    /\ logged = [q \in Runs |-> {}]
    /\ asked = [q \in Runs |-> {}]
    /\ postInvoked = [q \in Runs |-> {}]
    /\ fsOps = [q \in Runs |-> {}]
    /\ written = [q \in Runs |-> {}]
    /\ clobbered = {}
    /\ cleanupCalls = <<>>

\* one create run; the destination may already exist
Init ==
    /\ fs \in {EmptyFs} \cup {ForeignFs(n) : n \in 0..MaxForeignFiles}
    /\ missing \in RemovedTemplates
    /\ pc = [r \in Runs |-> IF r = 1 THEN "start" ELSE "off"]
    /\ \E o \in CommandOptions : opts = [r \in Runs |-> IF r = 1 THEN o ELSE DefaultOptions]
    /\ \E n \in ProjectNames : projectName = [r \in Runs |-> n]
    /\ config = [r \in Runs |-> NoConfig]
    /\ context = [r \in Runs |-> NoContext]
    /\ InitRun

(***************************************************************************)
(* createCommand up to the generator (src/cli/commands/create.ts:88-191)   *)
(***************************************************************************)
runVars == <<config, context, createdFiles, createdDirectories, errors, result>>
ghostVars == <<postInvoked, fsOps, written, clobbered, cleanupCalls>>
inputVars == <<missing, opts, projectName>>

Goto(r, label) == pc' = [pc EXCEPT ![r] = label]

\* process.exit(code), or the return of createCommand with code 0
Exit(r, code) ==
    /\ pc' = [pc EXCEPT ![r] = "exited"]
    /\ exitCode' = [exitCode EXCEPT ![r] = code]

Log(r, lines) == logged' = [logged EXCEPT ![r] = @ \cup lines]

\* create.ts:110-119
CheckProjectName(r) ==
    /\ pc[r] = "start"
    /\ IF validateProjectName(projectName[r]).valid
       THEN Goto(r, "preflight") /\ UNCHANGED <<exitCode, logged>>
       ELSE Exit(r, 1) /\ Log(r, {"Invalid project name"})
    /\ UNCHANGED <<fs, inputVars, asked, runVars, ghostVars>>

\* create.ts:121-125
PreflightCheck(r) ==
    /\ pc[r] = "preflight"
    /\ IF directoryExists(fs)
       THEN Exit(r, 1) /\ Log(r, {"already exists"})
       ELSE Goto(r, "options") /\ UNCHANGED <<exitCode, logged>>
    /\ UNCHANGED <<fs, inputVars, asked, runVars, ghostVars>>

\* create.ts:128-134
CheckOptions(r) ==
    /\ pc[r] = "options"
    /\ LET v == validateOptions(opts[r])
       IN IF v.valid
          THEN Goto(r, "prompts") /\ Log(r, SeqToSet(v.warnings))
                  /\ UNCHANGED exitCode
          ELSE Exit(r, 1) /\ Log(r, SeqToSet(v.errors))
    /\ UNCHANGED <<fs, inputVars, asked, runVars, ghostVars>>

\* runProjectPrompts returns with the answers a
Answered(r, a) ==
    /\ config' = [config EXCEPT ![r] = runProjectPrompts(projectName[r], opts[r], a)]
    /\ asked' = [asked EXCEPT ![r] = @ \cup questionsAsked(opts[r], a)]

\* create.ts:143-153: the prompts answered
Prompts(r) ==
    /\ pc[r] = "prompts"
    /\ \E a \in Answers : Answered(r, a)
    /\ Goto(r, "confirm")
    /\ UNCHANGED <<fs, inputVars, context, createdFiles, createdDirectories,
                   errors, result, exitCode, logged, ghostVars>>

\* the same call answered by a user who is offered every database and driver
PromptsAnyAnswer(r) ==
    /\ pc[r] = "prompts"
    /\ \E a \in AnyAnswers : Answered(r, a)
    /\ Goto(r, "confirm")
    /\ UNCHANGED <<fs, inputVars, context, createdFiles, createdDirectories,
                   errors, result, exitCode, logged, ghostVars>>

\* create.ts:145-150: a prompt rejects (Ctrl+C at a question)
PromptsCancelled(r) ==
    /\ pc[r] = "prompts"
    /\ Exit(r, 0)
    /\ Log(r, {"Operation cancelled"})
    /\ UNCHANGED <<fs, inputVars, asked, runVars, ghostVars>>

\* create.ts:165-187 with the return taken out: the run goes on to generate
dryRunFallsThrough(r) ==
    /\ Goto(r, "construct")
    /\ Log(r, {"No files were created (dry run)"})
    /\ UNCHANGED exitCode

\* create.ts:165-187: the dry-run summary, and the return that ends the run
dryRunSummary(r) ==
    /\ Exit(r, 0)
    /\ Log(r, {"No files were created (dry run)"})

\* create.ts:156-162: the confirmation question, put whenever the run is not
\* a dry run; a rejected prompt leaves through the catch of the CLI action
confirmGeneration(r) ==
    /\ asked' = [asked EXCEPT ![r] = @ \cup {"confirm"}]
    /\ \/ Goto(r, "construct") /\ UNCHANGED <<exitCode, logged>>
       \/ Exit(r, 0) /\ Log(r, {"Operation cancelled"})
       \/ Exit(r, 1) /\ Log(r, {"Error:"})

\* create.ts:156-187
Confirm(r) ==
    /\ pc[r] = "confirm"
    /\ IF opts[r].dryRun
       THEN dryRunSummary(r) /\ UNCHANGED asked
       ELSE confirmGeneration(r)
    /\ UNCHANGED <<fs, inputVars, runVars, ghostVars>>

\* create.ts:193, new ProjectGenerator(config): the constructor derives the
\* template context
NewGenerator(r) ==
    /\ pc[r] = "construct"
    /\ context' = [context EXCEPT ![r] = createTemplateContext(config[r])]
    /\ Goto(r, "generate")
    /\ UNCHANGED <<fs, inputVars, asked, config, createdFiles, createdDirectories,
                   errors, result, exitCode, logged, ghostVars>>

(***************************************************************************)
(* ProjectGenerator (src/generators/ProjectGenerator.ts)                   *)
(***************************************************************************)
ErrAlreadyExists == "Directory already exists"
ErrTemplatesNotFound == "Required templates not found"
ErrFrontendTemplate == "Template not found for frontend configuration"
ErrBackendTemplate == "Template not found for backend configuration"
ErrFilesystem == "EACCES: permission denied"
ErrNoEntry == "ENOENT: no such file or directory, scandir"

getResult(r, success, errs) ==
    [returned |-> TRUE, success |-> success, createdFiles |-> createdFiles[r],
     createdDirectories |-> createdDirectories[r], errors |-> errs]

\* a catch block that returns the failed result without recording the
\* message
CatchUnrecorded(r, message) ==
    /\ result' = [result EXCEPT ![r] = getResult(r, FALSE, errors[r])]
    /\ Log(r, {"Generation failed"})
    /\ Goto(r, "returned")
    /\ UNCHANGED <<errors, createdFiles, createdDirectories>>

\* the catch block of generate(): the message is recorded and a failed
\* result returned; the lists keep what was pushed before the throw
Catch(r, message) ==
    /\ errors' = [errors EXCEPT ![r] = Append(@, message)]
    /\ result' = [result EXCEPT ![r] = getResult(r, FALSE, Append(errors[r], message))]
    /\ Log(r, {"Generation failed"})
    /\ Goto(r, "returned")
    /\ UNCHANGED <<createdFiles, createdDirectories>>

\* the effect on the destination of writing `paths` after ensuring `f1`
Materialize(r, f1, paths) ==
    /\ fs' = writeAll(f1, paths, r)
    /\ written' = [written EXCEPT ![r] = @ \cup SeqToSet(paths)]
    /\ clobbered' = clobbered \cup Overwritten(fs, paths, r)
    /\ fsOps' = [fsOps EXCEPT ![r] = @ \cup (IF f1 # fs THEN {"mkdir"} ELSE {})
                                       \cup (IF paths # <<>> THEN {"write"} ELSE {})]

\* a step that throws after having written the first k of its files
ThrowsAfter(r, f1, paths, message) ==
    \E k \in 0..(Len(paths) - 1) :
        /\ Materialize(r, f1, SubSeq(paths, 1, k))
        /\ Catch(r, message)

NoFsChange == UNCHANGED <<fs, written, clobbered, fsOps>>

\* generate():80-83, the existence check
generateCheck(r) ==
    /\ pc[r] = "generate"
    /\ IF directoryExists(fs)
       THEN /\ errors' = [errors EXCEPT ![r] = Append(@, ErrAlreadyExists)]
            /\ result' = [result EXCEPT ![r] =
                             getResult(r, FALSE, Append(errors[r], ErrAlreadyExists))]
            /\ Goto(r, "returned")
       ELSE Goto(r, "validateTemplates") /\ UNCHANGED <<errors, result>>
    /\ NoFsChange
    /\ UNCHANGED <<inputVars, asked, config, context, createdFiles, createdDirectories,
                   exitCode, logged, postInvoked, cleanupCalls>>

\* validateTemplates() without the check of the backend tree
missingTemplatesNoBackend(c) ==
    (IF c.mode \in {"full", "frontend"} /\ ~templateExists(getFrontendTemplatePath(c))
     THEN {"Frontend"} ELSE {}) \cup
    (IF ~templateExists(getRootTemplatePath) THEN {"Root"} ELSE {})

\* the template directories validateTemplates() reports as missing
missingTemplates(c) ==
    (IF c.mode \in {"full", "frontend"} /\ ~templateExists(getFrontendTemplatePath(c))
     THEN {"Frontend"} ELSE {}) \cup
    (IF c.mode \in {"full", "backend"} /\ ~templateExists(getBackendTemplatePath(c))
     THEN {"Backend"} ELSE {}) \cup
    (IF ~templateExists(getRootTemplatePath) THEN {"Root"} ELSE {})

\* generate():86-88
validateTemplates(r) ==
    /\ pc[r] = "validateTemplates"
    /\ IF missingTemplates(config[r]) # {}
       THEN Catch(r, ErrTemplatesNotFound)
       ELSE Goto(r, "createRoot")
               /\ UNCHANGED <<errors, result, logged, createdFiles, createdDirectories>>
    /\ NoFsChange
    /\ UNCHANGED <<inputVars, asked, config, context, exitCode, postInvoked, cleanupCalls>>

\* the switch of generate() entering the backend generator in every mode
ComponentStepBackendFirst(c) == "server"

\* generate():99-109, the component generator the switch on the mode enters
ComponentStep(c) ==
    IF c.mode = "backend" THEN "server" ELSE "client"

\* generate():90-96; ensureDir also creates the directories above the root
\* that are not there yet
createRoot(r) ==
    /\ pc[r] = "createRoot"
    /\ \/ /\ fs' = createDirectory(fs, <<>>)
          /\ \E present \in BOOLEAN :
                fsOps' = [fsOps EXCEPT ![r] = @ \cup {"mkdir"} \cup
                            (IF Parents(projectPath(config[r].projectName)) # {} /\ ~present
                             THEN {"mkdir outside"} ELSE {})]
          /\ UNCHANGED <<written, clobbered>>
          /\ createdDirectories' =
                [createdDirectories EXCEPT ![r] = Append(@, config[r].projectName)]
          /\ Goto(r, ComponentStep(config[r]))
          /\ UNCHANGED <<errors, result, logged, createdFiles>>
       \/ Catch(r, ErrFilesystem) /\ NoFsChange
    /\ UNCHANGED <<inputVars, asked, config, context, exitCode, postInvoked, cleanupCalls>>

\* the created files of a component recorded without the component name
createdPrefixNone(c, component) == <<>>

\* generateFullStack():145,151 against generateFrontendOnly():164 and
\* generateBackendOnly():173: the prefix under which the orchestrator records
\* the relative paths a component generator returns
createdPrefix(c, component) == IF c.mode = "full" THEN <<component>> ELSE <<>>

\* an output directory nested under the component name in every mode
outputPathNested(c, component) == <<component>>

\* the output directory of a component generator, relative to the root
outputPath(c, component) == IF c.mode = "full" THEN <<component>> ELSE <<>>

templateOutputs(dir) ==
    IF templateExists(dir) THEN processTemplateDirectory(getAllFiles(dir)) ELSE <<>>

\* ClientGenerator.generate():50-60, the predicate handed to
\* processTemplateDirectory as a fourth argument with the variant tree
clientFilter(c, relativePath) ==
    /\ ~(c.state # "context" /\ relativePath[1] = "context" /\ Len(relativePath) > 1)
    /\ ~(c.state \in {"context", "none"} /\ relativePath[1] = "store"
            /\ Len(relativePath) > 1)

\* ClientGenerator.generate(): variant, common and Docker trees in order; the
\* predicate is passed after the three declared parameters of
\* processTemplateDirectory and never consulted
clientFiles(c) ==
    templateOutputs(getFrontendTemplatePath(c)) \o
    templateOutputs(getCommonFrontendTemplatePath) \o
    (IF c.docker THEN templateOutputs(getDockerTemplatePath("client")) ELSE <<>>)

\* a file name of the template trees without its extension
Stem(name) ==
    CASE name \in {"authController.ts", "authController.js"} -> "authController"
      [] name \in {"payment.ts", "payment.js"} -> "payment"
      [] OTHER -> name

\* relativePath.includes('dir/name'): the path has a directory `dir` holding
\* an entry whose name begins with `name`
includes(relativePath, marker) ==
    \E i \in 1..(Len(relativePath) - 1) :
        relativePath[i] = marker[1] /\ Stem(relativePath[i + 1]) = marker[2]

PaymentMarkers ==
    {<<"controllers", "paymentController">>, <<"routes", "payment">>,
     <<"services", "payment">>}

AuthMarkers ==
    {<<"controllers", "authController">>, <<"routes", "auth">>,
     <<"middleware", "auth">>, <<"config", "passport">>, <<"models", "User">>,
     <<"utils", "authUtils">>}

\* ServerGenerator.generate():46-65, the predicate handed to
\* processTemplateDirectory as a fourth argument with the variant tree
serverFilter(c, relativePath) ==
    /\ c.payment = "none" => \A m \in PaymentMarkers : ~includes(relativePath, m)
    /\ c.auth = "none" => \A m \in AuthMarkers : ~includes(relativePath, m)

\* ServerGenerator.generate():97-103, the predicate handed over with the
\* common tree
commonFilter(c, relativePath) ==
    ~(relativePath[1] = "prisma" /\ c.database # "postgresql")

\* ServerGenerator.generate(): variant, common and Docker trees in order;
\* processTemplateDirectory(templateDir, outputDir, context) declares three
\* parameters, so the predicates passed after them are never consulted
serverFiles(c) ==
    templateOutputs(getBackendTemplatePath(c)) \o
    templateOutputs(getCommonBackendTemplatePath) \o
    (IF c.docker THEN templateOutputs(getDockerTemplatePath("server")) ELSE <<>>)

\* generateFullStack():143-146 and generateFrontendOnly()
clientGenerate(r) ==
    LET c == config[r]
        out == outputPath(c, "client")
        f1 == createDirectory(fs, out)
        paths == joinAll(out, clientFiles(c))
        recorded == joinAll(createdPrefix(c, "client"), clientFiles(c))
    IN /\ pc[r] = "client"
       /\ \/ /\ templateExists(getFrontendTemplatePath(c))
             /\ Materialize(r, f1, paths)
             /\ createdFiles' = [createdFiles EXCEPT ![r] = @ \o recorded]
             /\ createdDirectories' =
                   [createdDirectories EXCEPT ![r] =
                       IF c.mode = "full" THEN Append(@, "client") ELSE @]
             /\ Goto(r, IF c.mode = "full" THEN "server" ELSE "rootFiles")
             /\ UNCHANGED <<errors, result, logged>>
          \/ /\ ~templateExists(getFrontendTemplatePath(c))
             /\ Materialize(r, f1, <<>>)
             /\ Catch(r, ErrFrontendTemplate)
          \/ /\ templateExists(getFrontendTemplatePath(c))
             /\ ThrowsAfter(r, f1, paths, ErrFilesystem)
       /\ UNCHANGED <<inputVars, asked, config, context, exitCode, postInvoked, cleanupCalls>>

\* generateFullStack():149-152 and generateBackendOnly()
serverGenerate(r) ==
    LET c == config[r]
        out == outputPath(c, "server")
        f1 == createDirectory(fs, out)
        paths == joinAll(out, serverFiles(c))
        recorded == joinAll(createdPrefix(c, "server"), serverFiles(c))
    IN /\ pc[r] = "server"
       /\ \/ /\ templateExists(getBackendTemplatePath(c))
             /\ Materialize(r, f1, paths)
             /\ createdFiles' = [createdFiles EXCEPT ![r] = @ \o recorded]
             /\ createdDirectories' =
                   [createdDirectories EXCEPT ![r] =
                       IF c.mode = "full" THEN Append(@, "server") ELSE @]
             /\ Goto(r, IF c.mode = "full" THEN "shared" ELSE "rootFiles")
             /\ UNCHANGED <<errors, result, logged>>
          \/ /\ ~templateExists(getBackendTemplatePath(c))
             /\ Materialize(r, f1, <<>>)
             /\ Catch(r, ErrBackendTemplate)
          \/ /\ templateExists(getBackendTemplatePath(c))
             /\ ThrowsAfter(r, f1, paths, ErrFilesystem)
       /\ UNCHANGED <<inputVars, asked, config, context, exitCode, postInvoked, cleanupCalls>>

\* generateSharedDirectory()
generateSharedDirectory(r) ==
    LET ctx == context[r]
        f1 == createDirectory(createDirectory(createDirectory(fs,
                  <<"shared">>), <<"shared", "types">>), <<"shared", "utils">>)
        index == <<"shared", IF ctx.scriptExt = "ts" THEN "index.ts" ELSE "index.js">>
    IN /\ pc[r] = "shared"
       /\ \/ /\ Materialize(r, f1, <<index>>)
             /\ createdFiles' = [createdFiles EXCEPT ![r] = Append(@, index)]
             /\ createdDirectories' = [createdDirectories EXCEPT ![r] = Append(@, "shared")]
             /\ Goto(r, "rootFiles")
             /\ UNCHANGED <<errors, result, logged>>
          \/ ThrowsAfter(r, f1, <<index>>, ErrFilesystem)
       /\ UNCHANGED <<inputVars, asked, config, context, exitCode, postInvoked, cleanupCalls>>

\* generateRootFiles():212-222, the predicate handed to
\* processTemplateDirectory as a fourth argument with the root tree
rootFilter(c, relativePath) ==
    /\ ~(".env.example" \in SeqToSet(relativePath) /\ c.mode \in {"full", "backend"})
    /\ ~(relativePath = <<"package.json">> /\ c.mode = "backend")

\* the root tree, read without an existence check, then the root Docker tree
\* when Docker is enabled; the predicate is passed after the three declared
\* parameters of processTemplateDirectory and never consulted
rootFiles(c) ==
    processTemplateDirectory(getAllFiles(getRootTemplatePath)) \o
    (IF c.docker THEN templateOutputs(getDockerTemplatePath("root")) ELSE <<>>)

\* generateRootFiles(); getAllFiles rejects when the root tree is not there
generateRootFiles(r) ==
    LET paths == rootFiles(config[r])
        f1 == createDirectory(fs, <<>>)
    IN /\ pc[r] = "rootFiles"
       /\ \/ /\ templateExists(getRootTemplatePath)
             /\ Materialize(r, IF paths = <<>> THEN fs ELSE f1, paths)
             /\ createdFiles' = [createdFiles EXCEPT ![r] = @ \o paths]
             /\ Goto(r, "cicd")
             /\ UNCHANGED <<errors, result, logged, createdDirectories>>
          \/ /\ ~templateExists(getRootTemplatePath)
             /\ Catch(r, ErrNoEntry)
             /\ NoFsChange
          \/ /\ templateExists(getRootTemplatePath)
             /\ ThrowsAfter(r, fs, paths, ErrFilesystem)
       /\ UNCHANGED <<inputVars, asked, config, context, exitCode, postInvoked, cleanupCalls>>

cicdFiles(c) ==
    IF c.cicd = "none" THEN <<>> ELSE templateOutputs(getCicdTemplatePath(c.cicd))

\* generateCicdFiles() and the return of generate():115-117
generateCicdFiles(r) ==
    LET paths == cicdFiles(config[r])
    IN /\ pc[r] = "cicd"
       /\ \/ /\ Materialize(r, fs, paths)
             /\ createdFiles' = [createdFiles EXCEPT ![r] = @ \o paths]
             /\ result' = [result EXCEPT ![r] =
                   [returned |-> TRUE, success |-> TRUE,
                    createdFiles |-> createdFiles[r] \o paths,
                    createdDirectories |-> createdDirectories[r],
                    errors |-> errors[r]]]
             /\ Goto(r, "returned")
             /\ UNCHANGED <<errors, logged, createdDirectories>>
          \/ ThrowsAfter(r, fs, paths, ErrFilesystem)
       /\ UNCHANGED <<inputVars, asked, config, context, exitCode, postInvoked, cleanupCalls>>

\* cleanup that only reports and removes nothing
cleanupSkipsRemove(f, removeOk) ==
    [fs |-> f, threw |-> FALSE,
     lines |-> IF directoryExists(f) THEN {"Cleaned up project directory"} ELSE {}]

\* cleanup that swallows a rejected remove
cleanupSwallowsError(f, removeOk) ==
    IF directoryExists(f) /\ removeOk
    THEN [fs |-> removeDirectory(f), threw |-> FALSE,
          lines |-> {"Cleaned up project directory"}]
    ELSE [fs |-> f, threw |-> FALSE, lines |-> {}]

\* cleanup without the existence guard, on a remove that rejects a missing
\* directory
cleanupUnguarded(f, removeOk) ==
    IF directoryExists(f) /\ removeOk
    THEN [fs |-> removeDirectory(f), threw |-> FALSE,
          lines |-> {"Cleaned up project directory"}]
    ELSE [fs |-> f, threw |-> TRUE,
          lines |-> {"Failed to remove project directory",
                     "Please manually remove"}]

\* ProjectGenerator.cleanup(): the destination after the call, whether the
\* call threw, and what it logged; removeOk says whether fs.remove resolves
cleanup(f, removeOk) ==
    IF directoryExists(f)
    THEN IF removeOk
         THEN [fs |-> removeDirectory(f), threw |-> FALSE,
               lines |-> {"Cleaned up project directory"}]
         ELSE [fs |-> f, threw |-> TRUE,
               lines |-> {"Failed to remove project directory",
                          "Please manually remove"}]
    ELSE [fs |-> f, threw |-> FALSE, lines |-> {}]

\* one call of cleanup() by run r and its bookkeeping
CallCleanup(r, c) ==
    /\ fs' = c.fs
    /\ clobbered' = clobbered \cup (IF c.fs # fs THEN Removed(fs, r) ELSE {})
    /\ fsOps' = [fsOps EXCEPT ![r] = @ \cup (IF c.fs # fs THEN {"remove"} ELSE {})]
    /\ cleanupCalls' = Append(cleanupCalls,
          [run |-> r, before |-> fs, after |-> c.fs, threw |-> c.threw])

(***************************************************************************)
(* createCommand after generate() (src/cli/commands/create.ts:218-289)     *)
(***************************************************************************)
\* the failure handling without its exit: the command carries on
continueAfterFailure(r) == Goto(r, "git") /\ UNCHANGED exitCode

\* the failure handling ending like a normal return of the command
exitAfterFailureZero(r) == Exit(r, 0)

\* create.ts:245, the exit that ends the failure handling
exitAfterFailure(r) == Exit(r, 1)

\* create.ts:218-246: the result is inspected; a failed one is cleaned up
checkResult(r) ==
    /\ pc[r] = "returned"
    /\ IF ~result[r].success
       THEN /\ \E removeOk \in BOOLEAN :
                  LET c == cleanup(fs, removeOk)
                  IN /\ CallCleanup(r, c)
                     /\ Log(r, {"Failed to generate project",
                                "Cleaning up partially created project..."}
                               \cup c.lines \cup
                               (IF c.threw
                                THEN {"Failed to clean up all files. Please manually remove:"}
                                ELSE {"Removed files"}))
            /\ exitAfterFailure(r)
       ELSE /\ Goto(r, "git")
            /\ UNCHANGED <<fs, exitCode, logged, fsOps, clobbered, cleanupCalls>>
    /\ UNCHANGED <<inputVars, asked, runVars, postInvoked, written>>

\* create.ts:249-257; a rejected git command leaves createCommand through
\* the catch of the CLI action, which exits with status 1
gitInit(r) ==
    /\ pc[r] = "git"
    /\ IF config[r].git
       THEN /\ postInvoked' = [postInvoked EXCEPT ![r] = @ \cup {"git"}]
            /\ \/ Goto(r, "install") /\ UNCHANGED <<exitCode, logged>>
               \/ Exit(r, 1) /\ Log(r, {"Error:"})
       ELSE Goto(r, "install") /\ UNCHANGED <<exitCode, logged, postInvoked>>
    /\ UNCHANGED <<fs, inputVars, asked, runVars, fsOps, written, clobbered, cleanupCalls>>

\* an install failure treated like a generation failure: the tree is removed
installFailedRollsBack(r) ==
    /\ Log(r, {"Failed to install dependencies"})
    /\ CallCleanup(r, cleanup(fs, TRUE))

\* create.ts:263-282, the catch around installDependencies: the failure is
\* reported and the generated project is kept
installFailed(r) ==
    /\ Log(r, {"Failed to install dependencies"})
    /\ UNCHANGED <<fs, fsOps, clobbered, cleanupCalls>>

\* create.ts:260-283
installDependencies(r) ==
    /\ pc[r] = "install"
    /\ IF config[r].install
       THEN /\ postInvoked' = [postInvoked EXCEPT ![r] = @ \cup {"install"}]
            /\ \/ UNCHANGED <<logged, fs, fsOps, clobbered, cleanupCalls>>
               \/ installFailed(r)
       ELSE UNCHANGED <<logged, postInvoked, fs, fsOps, clobbered, cleanupCalls>>
    /\ Goto(r, "env")
    /\ UNCHANGED <<inputVars, asked, runVars, exitCode, written>>

\* createEnvFile() and the completion message, create.ts:286-325
createEnvFile(r) ==
    LET c == config[r]
        serverPath == outputPath(c, "server")
        envExamplePath == serverPath \o <<".env.example">>
        envPath == serverPath \o <<".env">>
        copies == c.mode # "frontend" /\ fileExists(fs, envExamplePath)
                     /\ ~fileExists(fs, envPath)
    IN /\ pc[r] = "env"
       /\ postInvoked' = [postInvoked EXCEPT ![r] = @ \cup {"env"}]
       /\ \/ copies /\ Materialize(r, fs, <<envPath>>) /\ UNCHANGED logged
          \/ copies /\ NoFsChange
                /\ Log(r, {"Failed to create .env file automatically"})
          \/ ~copies /\ NoFsChange /\ UNCHANGED logged
       /\ Exit(r, 0)
       /\ UNCHANGED <<inputVars, asked, runVars, cleanupCalls>>

(***************************************************************************)
(* Environment                                                             *)
(***************************************************************************)
InGenerate == {"generate", "validateTemplates", "createRoot", "client", "server",
               "shared", "rootFiles", "cicd"}
PostSteps == {"git", "install", "env"}

\* SIGINT while generating or in a post-generation step: no handler is
\* installed, the process ends where it stands
Interrupt(r) ==
    /\ pc[r] \in InGenerate \cup {"returned"} \cup PostSteps
    /\ pc' = [pc EXCEPT ![r] = "killed"]
    /\ exitCode' = [exitCode EXCEPT ![r] = 130]
    /\ UNCHANGED <<fs, inputVars, asked, runVars, logged, ghostVars>>

\* another process creates the destination while the command waits for the
\* user at the prompts
ExternalCreate ==
    /\ \E r \in Runs : pc[r] \in {"prompts", "confirm"}
    /\ ~fs.exists
    /\ \E n \in 0..MaxForeignFiles : fs' = ForeignFs(n)
    /\ UNCHANGED <<inputVars, asked, pc, runVars, exitCode, logged, ghostVars>>

(***************************************************************************)
(* One create run, with its environment                                    *)
(***************************************************************************)
RunStep(r) ==
    \/ CheckProjectName(r)
    \/ PreflightCheck(r)
    \/ CheckOptions(r)
    \/ Prompts(r)
    \/ PromptsCancelled(r)
    \/ Confirm(r)
    \/ NewGenerator(r)
    \/ generateCheck(r)
    \/ validateTemplates(r)
    \/ createRoot(r)
    \/ clientGenerate(r)
    \/ serverGenerate(r)
    \/ generateSharedDirectory(r)
    \/ generateRootFiles(r)
    \/ generateCicdFiles(r)
    \/ checkResult(r)
    \/ gitInit(r)
    \/ installDependencies(r)
    \/ createEnvFile(r)

Next ==
    \/ \E r \in Runs : RunStep(r)
    \/ \E r \in Runs : Interrupt(r)
    \/ ExternalCreate

Spec == Init /\ [][Next]_vars

(***************************************************************************)
(* Two create runs started on the same destination                         *)
(***************************************************************************)
InitConc ==
    /\ fs = EmptyFs
    /\ missing = {}
    /\ pc = [r \in Runs |-> "start"]
    /\ \E d \in BOOLEAN : opts = [r \in Runs |-> [DefaultOptions EXCEPT !.dryRun = d]]
    /\ projectName = [r \in Runs |-> "my-app"]
    /\ config = [r \in Runs |-> NoConfig]
    /\ context = [r \in Runs |-> NoContext]
    /\ InitRun

NextConc == \E r \in Runs : RunStep(r)

SpecConc == InitConc /\ [][NextConc]_vars

(***************************************************************************)
(* ProjectGenerator used directly: generate(), then cleanup() any number   *)
(* of times                                                                *)
(***************************************************************************)
\* the configurations a caller hands to the generator: every mode, variant
\* and feature switch under a plain name, the default project under a
\* scoped name, and a frontend with each of the other state managers
DirectConfigs ==
    [projectName : {"my-app"}, mode : Modes, language : Languages,
     moduleSystem : ModuleSystems, frontend : Frontends, state : {"zustand"},
     database : {"mongodb"}, orm : {"mongoose"}, auth : {"jwt", "none"},
     docker : BOOLEAN, payment : {"stripe", "none"}, tailwind : {TRUE},
     git : {FALSE}, cicd : CicdProviders, install : {FALSE}] \cup
    [projectName : {"@acme/app"}, mode : Modes, language : {"typescript"},
     moduleSystem : {"es6"}, frontend : {"vite"}, state : {"zustand"},
     database : {"mongodb"}, orm : {"mongoose"}, auth : {"jwt"},
     docker : {TRUE}, payment : {"none"}, tailwind : {TRUE},
     git : {FALSE}, cicd : {"none"}, install : {FALSE}] \cup
    [projectName : {"my-app"}, mode : {"frontend"}, language : {"typescript"},
     moduleSystem : {"es6"}, frontend : {"vite"},
     state : StateManagements \ {"zustand"}, database : {"mongodb"},
     orm : {"mongoose"}, auth : {"jwt"}, docker : {FALSE}, payment : {"none"},
     tailwind : {TRUE}, git : {FALSE}, cicd : {"none"}, install : {FALSE}]

InitGenerator ==
    /\ fs \in {EmptyFs} \cup {ForeignFs(n) : n \in 0..MaxForeignFiles}
    /\ missing \in RemovedTemplates
    /\ pc = [r \in Runs |-> IF r = 1 THEN "construct" ELSE "off"]
    /\ opts = [r \in Runs |-> DefaultOptions]
    /\ \E c \in DirectConfigs :
          /\ config = [r \in Runs |-> IF r = 1 THEN c ELSE NoConfig]
          /\ projectName = [r \in Runs |-> c.projectName]
    /\ context = [r \in Runs |-> NoContext]
    /\ InitRun

\* generator.cleanup() called by the holder of the generator
directCleanup(r) ==
    /\ pc[r] = "returned"
    /\ Len(cleanupCalls) < MaxCleanupCalls
    /\ \E removeOk \in BOOLEAN :
          LET c == cleanup(fs, removeOk)
          IN CallCleanup(r, c) /\ Log(r, c.lines)
    /\ UNCHANGED <<inputVars, asked, pc, runVars, exitCode, postInvoked, written>>

NextGenerator ==
    \E r \in Runs :
        \/ NewGenerator(r)
        \/ generateCheck(r)
        \/ validateTemplates(r)
        \/ createRoot(r)
        \/ clientGenerate(r)
        \/ serverGenerate(r)
        \/ generateSharedDirectory(r)
        \/ generateRootFiles(r)
        \/ generateCicdFiles(r)
        \/ directCleanup(r)

SpecGenerator == InitGenerator /\ [][NextGenerator]_vars

(***************************************************************************)
(* runProjectPrompts called with any options                               *)
(***************************************************************************)
AnyOptions ==
    [mode : {Undef, "backend"}, typescript : Tri, javascript : Tri, es6 : Tri,
     vanilla : Tri, frontend : {Undef}, database : Databases \cup {Undef},
     orm : {Undef, "pg", "mongoose"}, auth : {Undef}, state : {Undef},
     tailwind : {Undef}, docker : {Undef}, payment : {Undef}, git : {Undef},
     cicd : {Undef}, install : {Undef}, yes : BOOLEAN, dryRun : {FALSE}]

InitPrompts ==
    /\ fs = EmptyFs
    /\ missing = {}
    /\ pc = [r \in Runs |-> IF r = 1 THEN "prompts" ELSE "off"]
    /\ \E o \in AnyOptions : opts = [r \in Runs |-> IF r = 1 THEN o ELSE DefaultOptions]
    /\ projectName = [r \in Runs |-> "my-app"]
    /\ config = [r \in Runs |-> NoConfig]
    /\ context = [r \in Runs |-> NoContext]
    /\ InitRun

NextPrompts == \E r \in Runs : PromptsAnyAnswer(r)

SpecPrompts == InitPrompts /\ [][NextPrompts]_vars

(***************************************************************************)
(* validateOptions called with any options                                 *)
(***************************************************************************)
ValidatedOptions ==
    [mode : Modes \cup {Undef}, typescript : Tri, javascript : Tri, es6 : Tri,
     vanilla : Tri, frontend : {Undef, "vite"}, database : {Undef, "mongodb"},
     orm : {Undef}, auth : {Undef, "jwt"}, state : {Undef, "zustand"},
     tailwind : {Undef}, docker : {Undef}, payment : {Undef}, git : {Undef},
     cicd : {Undef}, install : {Undef}, yes : {TRUE}, dryRun : {FALSE}]

InitValidate ==
    /\ fs = EmptyFs
    /\ missing = {}
    /\ pc = [r \in Runs |-> IF r = 1 THEN "options" ELSE "off"]
    /\ \E o \in ValidatedOptions :
          opts = [r \in Runs |-> IF r = 1 THEN o ELSE DefaultOptions]
    /\ projectName = [r \in Runs |-> "my-app"]
    /\ config = [r \in Runs |-> NoConfig]
    /\ context = [r \in Runs |-> NoContext]
    /\ InitRun

NextValidate == \E r \in Runs : CheckOptions(r)

SpecValidate == InitValidate /\ [][NextValidate]_vars

(***************************************************************************)
(* The create command started through the CLI: commander applies the       *)
(* defaults declared with the options (src/cli/index.ts)                   *)
(***************************************************************************)
\* the flags a command line of this model may carry
CliFlags ==
    {"--javascript", "--vanilla", "--mode backend", "--no-git", "--dry-run", "--yes"}

\* the options object commander hands to the action for a set of flags:
\* an option declared with a default has it whenever its flag is absent, a
\* boolean flag without one is undefined when absent
parseOptions(flags) ==
    [mode |-> IF "--mode backend" \in flags THEN "backend" ELSE "full",
     typescript |-> "true",
     javascript |-> IF "--javascript" \in flags THEN "true" ELSE Undef,
     es6 |-> "true",
     vanilla |-> IF "--vanilla" \in flags THEN "true" ELSE Undef,
     frontend |-> "vite",
     database |-> "mongodb",
     orm |-> "prisma",
     auth |-> "jwt",
     state |-> "zustand",
     tailwind |-> "true",
     docker |-> "true",
     payment |-> Undef,
     git |-> IF "--no-git" \in flags THEN "false" ELSE "true",
     cicd |-> Undef,
     install |-> "true",
     yes |-> "--yes" \in flags,
     dryRun |-> "--dry-run" \in flags]

InitCli ==
    /\ fs \in {EmptyFs} \cup {ForeignFs(n) : n \in 0..MaxForeignFiles}
    /\ missing = {}
    /\ pc = [r \in Runs |-> IF r = 1 THEN "start" ELSE "off"]
    /\ \E flags \in SUBSET CliFlags :
          opts = [r \in Runs |-> IF r = 1 THEN parseOptions(flags) ELSE DefaultOptions]
    /\ \E n \in ProjectNames : projectName = [r \in Runs |-> n]
    /\ config = [r \in Runs |-> NoConfig]
    /\ context = [r \in Runs |-> NoContext]
    /\ InitRun

SpecCli == InitCli /\ [][Next]_vars

(***************************************************************************)
(* new ProjectGenerator(config) on a configuration its caller built: the   *)
(* optional orm field may be absent                                        *)
(***************************************************************************)
\* the orm values a caller sets with each database, or leaves out
OrmChoices(database) ==
    {Undef} \cup (CASE database = "mongodb" -> {"mongoose"}
                   [] database = "postgresql" -> {"prisma", "pg"}
                   [] OTHER -> {"none"})

ContextConfigs ==
    {c \in [projectName : {"my-app"}, mode : Modes, language : Languages,
            moduleSystem : ModuleSystems, frontend : {"vite"},
            state : {"zustand"}, database : Databases, orm : Orms \cup {Undef},
            auth : {"jwt"}, docker : {TRUE}, payment : {"none"},
            tailwind : {TRUE}, git : {FALSE}, cicd : {"none"},
            install : {FALSE}] : c.orm \in OrmChoices(c.database)}

InitContext ==
    /\ fs = EmptyFs
    /\ missing = {}
    /\ pc = [r \in Runs |-> IF r = 1 THEN "construct" ELSE "off"]
    /\ opts = [r \in Runs |-> DefaultOptions]
    /\ projectName = [r \in Runs |-> "my-app"]
    /\ \E c \in ContextConfigs : config = [r \in Runs |-> IF r = 1 THEN c ELSE NoConfig]
    /\ context = [r \in Runs |-> NoContext]
    /\ InitRun

NextContext == \E r \in Runs : NewGenerator(r)

SpecContext == InitContext /\ [][NextContext]_vars

(***************************************************************************)
(* Properties                                                              *)
(***************************************************************************)
Exited(r) == pc[r] = "exited"
GenerationFailed(r) == result[r].returned /\ ~result[r].success
GenerationSucceeded(r) == result[r].returned /\ result[r].success
CreatedRoot(r) == "mkdir" \in fsOps[r]
CleanupThrew(r) ==
    \E i \in 1..Len(cleanupCalls) : cleanupCalls[i].run = r /\ cleanupCalls[i].threw
ManualRemovalReported(r) ==
    "Failed to clean up all files. Please manually remove:" \in logged[r]
ConflictDetected(r) ==
    \/ ErrAlreadyExists \in SeqToSet(errors[r])
    \/ "already exists" \in logged[r]

\* C1: when a generation step throws after the project root was created, the
\* message is in the result's errors and, once the create run has ended, the
\* root and everything under it is gone, provided the remove did not fail.
C1_RollbackAfterFailure ==
    \A r \in Runs :
        (Exited(r) /\ GenerationFailed(r) /\ CreatedRoot(r)) =>
            /\ Len(result[r].errors) = 1
            /\ result[r].errors[1] \in {ErrFilesystem, ErrFrontendTemplate, ErrBackendTemplate}
            /\ CleanupThrew(r) \/ fs = EmptyFs

\* a run that wrote files, failed in a later step and removed the root
C1_Witness ==
    \E r \in Runs :
        /\ Exited(r) /\ GenerationFailed(r) /\ CreatedRoot(r)
        /\ written[r] # {}
        /\ ~CleanupThrew(r)
        /\ fs = EmptyFs

\* C2: when the destination already exists as a directory, the run fails with
\* the 'already exists' error and creates, modifies and removes nothing, the
\* failure handling after generate() included.
C2_ConflictChangesNothing ==
    \A r \in Runs :
        ConflictDetected(r) =>
            /\ fsOps[r] = {}
            /\ fs.exists
            /\ \A c \in clobbered : c.by # r

\* C3 as stated: every create run that ends in failure leaves either no
\* destination root or a root flagged with the instruction to remove it.
C3_EveryFailedRun ==
    \A r \in Runs :
        (Exited(r) /\ exitCode[r] # 0) => (~fs.exists \/ ManualRemovalReported(r))

\* C3 amended: every create run whose generate() returned a failed result
\* ends either without a destination root or with the root still present and
\* the instruction to remove it manually reported.
C3_FailedGenerationOutcome ==
    \A r \in Runs :
        (Exited(r) /\ GenerationFailed(r)) => (~fs.exists \/ ManualRemovalReported(r))

\* a failed generation whose rollback failed and was reported
C3_Witness ==
    \E r \in Runs :
        /\ Exited(r) /\ GenerationFailed(r) /\ written[r] # {}
        /\ fs.exists
        /\ ManualRemovalReported(r)

\* C4: of two create runs on the same destination at most one gets past the
\* existence check and writes, and neither deletes or overwrites files the
\* other wrote.
C4_ExclusiveDestination ==
    /\ Cardinality({r \in Runs : fsOps[r] \cap {"mkdir", "write"} # {}}) <= 1
    /\ \A c \in clobbered : ~(c.owner \in Runs /\ c.by \in Runs)

\* two calls of cleanup() in a row on the same generator
InARow(i) ==
    /\ i > 1
    /\ cleanupCalls[i - 1].run = cleanupCalls[i].run
    /\ cleanupCalls[i].before = cleanupCalls[i - 1].after

\* C5: cleanup() on a destination that does not exist returns normally and
\* changes nothing, and a second cleanup() right after one that returned
\* leaves the state the first one left.
C5_CleanupIdempotent ==
    \A i \in 1..Len(cleanupCalls) :
        LET c == cleanupCalls[i]
        IN /\ ~c.before.exists => (c.after = c.before /\ ~c.threw)
           /\ (InARow(i) /\ ~cleanupCalls[i - 1].threw) =>
                 (c.after = cleanupCalls[i - 1].after /\ ~c.threw)

\* a populated root removed by one cleanup(), then cleanup() called again
C5_Witness ==
    \E i \in 2..Len(cleanupCalls) :
        /\ InARow(i)
        /\ cleanupCalls[i - 1].before.files # {}
        /\ ~cleanupCalls[i - 1].after.exists
        /\ ~cleanupCalls[i - 1].threw

\* C6: git init, dependency installation and .env creation are invoked only
\* after generate() returned success = true.
C6_PostStepsGated ==
    \A r \in Runs :
        (postInvoked[r] # {} \/ pc[r] \in PostSteps) => GenerationSucceeded(r)

\* all three post-generation steps ran
C6_Witness ==
    \E r \in Runs : Exited(r) /\ postInvoked[r] = {"git", "install", "env"}

C8_InterruptCleansUp ==
    \A r \in Runs :
        (pc[r] = "killed" /\ ~result[r].returned /\ CreatedRoot(r)) => ~fs.exists

InvalidNames == {"MyProject"}
ConflictingFlags(o) ==
    \/ Truthy(o.typescript) /\ Truthy(o.javascript)
    \/ Truthy(o.es6) /\ Truthy(o.vanilla)

\* C9: a run with an invalid project name or with conflicting language or
\* module-system flags never constructs the generator, never mutates the
\* filesystem, and exits with status 1.
C9_ValidationBeforeMutation ==
    \A r \in Runs :
        (pc[r] # "off" /\ (projectName[r] \in InvalidNames \/ ConflictingFlags(opts[r]))) =>
            /\ pc[r] \in {"start", "preflight", "options", "exited"}
            /\ fsOps[r] = {}
            /\ ~result[r].returned
            /\ config[r] = NoConfig
            /\ Exited(r) => exitCode[r] = 1

\* a valid name with --es6 and --vanilla rejected by the option validation
C9_Witness ==
    \E r \in Runs :
        /\ Exited(r) /\ exitCode[r] = 1
        /\ projectName[r] \notin InvalidNames
        /\ Truthy(opts[r].es6) /\ Truthy(opts[r].vanilla)
        /\ ErrModuleConflict \in logged[r]

\* C10: a configuration returned by runProjectPrompts with language
\* typescript has module system es6, whatever the options and answers.
C10_TypescriptIsEs6 ==
    \A r \in Runs :
        config[r].language = "typescript" => config[r].moduleSystem = "es6"

\* typescript resolved although --vanilla was passed
C10_Witness ==
    \E r \in Runs :
        /\ pc[r] = "confirm"
        /\ config[r].language = "typescript"
        /\ Truthy(opts[r].vanilla)

\* the variant key the three-way mapping assigns to a configuration
VariantKey(c) ==
    CASE c.language = "typescript" -> "ts-es6"
      [] c.language = "javascript" /\ c.moduleSystem = "es6" -> "js-es6"
      [] c.language = "javascript" /\ c.moduleSystem = "vanilla" -> "js-vanilla"

\* C11: getVariantPath returns ts-es6 for typescript whatever the module
\* system, js-es6 for javascript with es6 and js-vanilla for javascript with
\* vanilla; the frontend and backend template paths are
\* client/{frontend}/{variant} and server/express/{variant}, and these are the
\* directories a generation that succeeded has found on disk.
C11_VariantMapping ==
    \A r \in Runs :
        config[r] # NoConfig =>
            LET c == config[r]
            IN /\ getVariantPath(c) = VariantKey(c)
               /\ getFrontendTemplatePath(c) = <<"client", c.frontend, VariantKey(c)>>
               /\ getBackendTemplatePath(c) = <<"server", "express", VariantKey(c)>>
               /\ (GenerationSucceeded(r) /\ c.mode \in FrontendModes) =>
                     templateExists(<<"client", c.frontend, VariantKey(c)>>)
               /\ (GenerationSucceeded(r) /\ c.mode \in BackendModes) =>
                     templateExists(<<"server", "express", VariantKey(c)>>)

\* a typescript configuration with the vanilla module system generated from
\* the ts-es6 trees while a javascript tree is missing
C11_Witness ==
    \E r \in Runs :
        /\ GenerationSucceeded(r)
        /\ config[r].language = "typescript"
        /\ config[r].moduleSystem = "vanilla"
        /\ config[r].mode = "full"
        /\ missing = {<<"client", "vite", "js-es6">>}

Constructed(r) == context[r] # NoContext

\* C12: in the context createTemplateContext builds, isTypeScript is true
\* iff the language is typescript, isES6 is true iff the module system is
\* es6, scriptExt and reactExt are ts and tsx for typescript and js and jsx
\* for javascript whatever the module system, and every field of the config
\* other than orm is carried over unchanged.
C12_ContextDerivation ==
    \A r \in Runs :
        Constructed(r) =>
            LET c == config[r]
                ctx == context[r]
            IN /\ ctx.isTypeScript = (c.language = "typescript")
               /\ ctx.isES6 = (c.moduleSystem = "es6")
               /\ c.language = "typescript" => (ctx.scriptExt = "ts" /\ ctx.reactExt = "tsx")
               /\ c.language = "javascript" => (ctx.scriptExt = "js" /\ ctx.reactExt = "jsx")
               /\ \A k \in DOMAIN c \ {"orm"} : ctx[k] = c[k]

\* the context of a typescript configuration whose module system is vanilla
C12_Witness ==
    \E r \in Runs :
        /\ Constructed(r)
        /\ config[r].language = "typescript"
        /\ config[r].moduleSystem = "vanilla"
        /\ context[r].scriptExt = "ts"
        /\ ~context[r].isES6

\* the one rule: the ORM or driver that goes with a database, given the
\* value that was specified, if any
OrmRule(database, specified) ==
    CASE database = "mongodb" -> "mongoose"
      [] database = "postgresql" -> IF specified = Undef THEN "prisma" ELSE specified
      [] OTHER -> "none"

\* C13: the rendering context resolves the ORM by the rule of the prompt
\* flow: mongoose for mongodb, the specified value or else prisma for
\* postgresql, none for any other database.
C13_OneOrmRule ==
    \A r \in Runs :
        Constructed(r) =>
            context[r].orm = OrmRule(config[r].database, config[r].orm)

\* the files below a directory of the destination
FilesUnder(dir) ==
    {p \in Paths(fs.files) : Len(p) > Len(dir) /\ SubSeq(p, 1, Len(dir)) = dir}

\* generate() returned success and nothing has touched the tree since
JustGenerated(r) == GenerationSucceeded(r) /\ cleanupCalls = <<>> /\ pc[r] = "returned"

C15_NothingOutsideRoot ==
    \A r \in Runs :
        JustGenerated(r) =>
            /\ SeqToSet(result[r].createdFiles) \subseteq Paths(fs.files)
            /\ \A p \in written[r] : ".." \notin SeqToSet(p)
            /\ "mkdir outside" \notin fsOps[r]

\* C15 amended: after a successful generate() every path of createdFiles is
\* a file on disk and every file the run wrote lies under the destination
\* root.
C15_CreatedFilesExist ==
    \A r \in Runs :
        JustGenerated(r) =>
            /\ result[r].createdFiles # <<>>
            /\ SeqToSet(result[r].createdFiles) \subseteq Paths(fs.files)
            /\ \A p \in written[r] : ".." \notin SeqToSet(p)
            /\ written[r] \subseteq Paths(fs.files)

\* a full-stack project whose list names files below client/ and server/
C15_Witness ==
    \E r \in Runs :
        /\ JustGenerated(r)
        /\ config[r].mode = "full"
        /\ <<"client", "package.json">> \in SeqToSet(result[r].createdFiles)
        /\ <<"server", "package.json">> \in SeqToSet(result[r].createdFiles)
        /\ <<"package.json">> \in SeqToSet(result[r].createdFiles)

\* C16: after a successful generate() with auth = none no file of the output
\* has an auth marker in its path, and with payment = none none has a
\* payment marker, from whichever template tree it came.
C16_FeatureFilesFiltered ==
    \A r \in Runs :
        JustGenerated(r) =>
            /\ config[r].auth = "none" =>
                  \A p \in Paths(fs.files), m \in AuthMarkers : ~includes(p, m)
            /\ config[r].payment = "none" =>
                  \A p \in Paths(fs.files), m \in PaymentMarkers : ~includes(p, m)

\* the template directories the configuration requires that are not on disk
RequiredMissing(c) ==
    {d \in missing :
        \/ d = <<"root">>
        \/ c.mode \in FrontendModes /\ d = <<"client", c.frontend, VariantKey(c)>>
        \/ c.mode \in BackendModes /\ d = <<"server", "express", VariantKey(c)>>}

TemplateNotFoundErrors == {ErrTemplatesNotFound, ErrFrontendTemplate, ErrBackendTemplate}

\* C17: when the variant template directory of a requested component or the
\* root template directory is missing, a generate() that got past its
\* existence check returns success = false with a template-not-found error,
\* and the destination root does not exist when it returns.
C17_MissingTemplate ==
    \A r \in Runs :
        (result[r].returned /\ pc[r] = "returned" /\ cleanupCalls = <<>>
            /\ RequiredMissing(config[r]) # {}
            /\ ErrAlreadyExists \notin SeqToSet(result[r].errors)) =>
                /\ ~result[r].success
                /\ Len(result[r].errors) = 1
                /\ result[r].errors[1] \in TemplateNotFoundErrors
                /\ ~fs.exists
                /\ fsOps[r] = {}

\* a typescript backend refused because server/express/ts-es6 is missing
C17_Witness ==
    \E r \in Runs :
        /\ result[r].returned /\ pc[r] = "returned"
        /\ config[r].mode = "backend"
        /\ RequiredMissing(config[r]) = {<<"server", "express", "ts-es6">>}
        /\ result[r].errors = <<ErrTemplatesNotFound>>
        /\ ~fs.exists

\* C18: a run with dryRun set never creates the project directory or a
\* file, never constructs or runs the generator, and never runs git init,
\* dependency installation or .env creation, whatever its configuration.
C18_DryRunWritesNothing ==
    \A r \in Runs :
        (pc[r] # "off" /\ opts[r].dryRun) =>
            /\ fsOps[r] = {}
            /\ written[r] = {}
            /\ ~Constructed(r)
            /\ ~result[r].returned
            /\ postInvoked[r] = {}
            /\ pc[r] \in {"start", "preflight", "options", "prompts", "confirm", "exited"}
            /\ \A c \in clobbered : c.by # r

\* a dry run that went through the prompts and printed its summary
C18_Witness ==
    \E r \in Runs :
        /\ Exited(r) /\ exitCode[r] = 0
        /\ opts[r].dryRun
        /\ config[r] # NoConfig
        /\ "No files were created (dry run)" \in logged[r]

\* C19: a run started with --yes is asked no interactive question, neither
\* by runProjectPrompts nor for confirmation, whatever the other options.
C19_YesAsksNothing ==
    \A r \in Runs : opts[r].yes => asked[r] = {}

\* C20: a run started with --javascript is not rejected by the option
\* validation and resolves language javascript, and one started with
\* --javascript --vanilla is not rejected and resolves module system vanilla.
C20_VariantsSelectable ==
    \A r \in Runs :
        /\ Truthy(opts[r].javascript) =>
              /\ ErrLanguageConflict \notin logged[r]
              /\ config[r] # NoConfig => config[r].language = "javascript"
        /\ (Truthy(opts[r].javascript) /\ Truthy(opts[r].vanilla)) =>
              /\ ErrModuleConflict \notin logged[r]
              /\ config[r] # NoConfig => config[r].moduleSystem = "vanilla"

RejectedByValidation(r) ==
    projectName[r] \in InvalidNames \/ ConflictingFlags(opts[r])

FullSuccess(r) ==
    /\ GenerationSucceeded(r)
    /\ "env" \in postInvoked[r]
    /\ "Error:" \notin logged[r]

\* C21: a create run that has ended has status 0 when generation and the
\* steps after it went through, and a status other than 0 when the name or
\* the flags were rejected, when the destination was found to exist, and
\* when generate() returned a failure, whatever the rollback did.
C21_ExitStatus ==
    \A r \in Runs :
        Exited(r) =>
            /\ FullSuccess(r) => exitCode[r] = 0
            /\ RejectedByValidation(r) => exitCode[r] # 0
            /\ ConflictDetected(r) => exitCode[r] # 0
            /\ GenerationFailed(r) => exitCode[r] # 0

\* a generation that failed after writing, was rolled back and exited 1
C21_Witness ==
    \E r \in Runs :
        /\ Exited(r) /\ GenerationFailed(r)
        /\ written[r] # {}
        /\ "remove" \in fsOps[r]
        /\ exitCode[r] = 1

OptionsChecked(r) == pc[r] \in {"prompts", "exited"}

\* C22: validateOptions returns valid = false exactly when typescript and
\* javascript are both set or es6 and vanilla are both set, with the message
\* of each conflict among its errors and nothing else; an option the mode
\* does not use, and vanilla next to typescript, add a warning each and
\* leave the result valid, so that the command goes on to the prompts.
C22_ValidateOptions ==
    \A r \in Runs :
        OptionsChecked(r) =>
            LET o == opts[r]
                v == validateOptions(o)
                mode == IF o.mode = Undef THEN "full" ELSE o.mode
                language == Truthy(o.typescript) /\ Truthy(o.javascript)
                module == Truthy(o.es6) /\ Truthy(o.vanilla)
            IN /\ v.valid = ~(language \/ module)
               /\ SeqToSet(v.errors) =
                     (IF language THEN {ErrLanguageConflict} ELSE {}) \cup
                     (IF module THEN {ErrModuleConflict} ELSE {})
               /\ WarnVanillaIgnored \in SeqToSet(v.warnings)
                     <=> (Truthy(o.vanilla) /\ Truthy(o.typescript))
               /\ WarnDatabaseIgnored \in SeqToSet(v.warnings)
                     <=> (mode = "frontend" /\ o.database # Undef)
               /\ WarnAuthIgnored \in SeqToSet(v.warnings)
                     <=> (mode = "frontend" /\ o.auth # Undef)
               /\ WarnFrontendIgnored \in SeqToSet(v.warnings)
                     <=> (mode = "backend" /\ o.frontend # Undef)
               /\ WarnStateIgnored \in SeqToSet(v.warnings)
                     <=> (mode = "backend" /\ o.state # Undef)
               /\ Exited(r) <=> (language \/ module)
               /\ ~Exited(r) => logged[r] = SeqToSet(v.warnings)

\* backend mode with --frontend and --state, and --vanilla next to
\* --typescript: three warnings, and the options pass
C22_Witness ==
    \E r \in Runs :
        /\ pc[r] = "prompts"
        /\ opts[r].mode = "backend"
        /\ logged[r] = {WarnVanillaIgnored, WarnFrontendIgnored, WarnStateIgnored}

\* the step that follows a completed step of generate() for a configuration
FollowingStep(c, step) ==
    CASE step = "generate" -> "validateTemplates"
      [] step = "validateTemplates" -> "createRoot"
      [] step = "createRoot" -> IF c.mode = "backend" THEN "server" ELSE "client"
      [] step = "client" -> IF c.mode = "full" THEN "server" ELSE "rootFiles"
      [] step = "server" -> IF c.mode = "full" THEN "shared" ELSE "rootFiles"
      [] step = "shared" -> "rootFiles"
      [] step = "rootFiles" -> "cicd"
      [] step = "cicd" -> "returned"

\* the position of an entry of createdFiles in the order of the steps
StepRank(path) ==
    CASE path[1] = "client" -> 1
      [] path[1] = "server" -> 2
      [] path[1] = "shared" -> 3
      [] path[1] = "docker-compose.yml" -> 5
      [] path[1] = ".github" -> 6
      [] OTHER -> 4

InStepOrder(files) ==
    \A i, j \in 1..Len(files) : i < j => StepRank(files[i]) <= StepRank(files[j])

StepsInOrder ==
    \A r \in Runs :
        (pc[r] \in InGenerate /\ pc'[r] # pc[r]) =>
            \/ pc'[r] = FollowingStep(config[r], pc[r])
                  /\ (pc'[r] = "returned" => result'[r].success)
            \/ pc'[r] = "returned" /\ ~result'[r].success
            \/ pc'[r] = "killed"

\* C23: every step of generate() that completes is followed by the next one
\* of the fixed order (existence check, template validation, root directory,
\* frontend, backend, shared directory, root files, CI/CD files, with the
\* components the mode selects), a step that fails ends generate(), and in
\* mode full createdFiles lists client entries before server entries before
\* the shared entry, the root files, the root Docker files and the CI/CD
\* files.
C23_StepOrder ==
    /\ [][StepsInOrder]_vars
    /\ [](\A r \in Runs : config[r].mode = "full" => InStepOrder(createdFiles[r]))

\* a full-stack generation with Docker and CI/CD that went through every step
C23_Witness ==
    \E r \in Runs :
        /\ JustGenerated(r)
        /\ config[r].mode = "full"
        /\ {StepRank(result[r].createdFiles[i]) : i \in 1..Len(result[r].createdFiles)}
              = 1..6

\* the entries a step appends to createdFiles
Appended(r) ==
    SubSeq(createdFiles'[r], Len(createdFiles[r]) + 1, Len(createdFiles'[r]))

RootStepFiltered ==
    \A r \in Runs :
        (pc[r] = "rootFiles" /\ pc'[r] = "cicd") =>
            /\ config[r].mode = "backend" =>
                  <<"package.json">> \notin SeqToSet(Appended(r))
            /\ config[r].mode \in {"full", "backend"} =>
                  <<".env.example">> \notin SeqToSet(Appended(r))

\* C24: the root-file step emits no package.json at the project root in mode
\* backend, where the backend generator has written one, and no .env.example
\* in mode full or backend.
C24_RootStepFiltered == [][RootStepFiltered]_vars

\* the files of the output that lie in a directory of the given name
InSubtree(name) ==
    {p \in Paths(fs.files) : \E i \in 1..(Len(p) - 1) : p[i] = name}

\* C25: after a successful generate() of a project with a frontend, the
\* output holds no file of a context subtree unless state is context, and
\* no file of a store subtree when state is context or none.
C25_StateSubtreeFiltered ==
    \A r \in Runs :
        (JustGenerated(r) /\ config[r].mode \in FrontendModes) =>
            /\ config[r].state # "context" => InSubtree("context") = {}
            /\ config[r].state \in {"context", "none"} => InSubtree("store") = {}

\* what processTemplateDirectory is to write and return for a tree and an
\* inclusion predicate: the output paths of the files the predicate accepts,
\* in walk order
Accepted(dir, accepts(_)) ==
    IF templateExists(dir)
    THEN processTemplateDirectory(SelectSeq(getAllFiles(dir), LAMBDA t : accepts(t.path)))
    ELSE <<>>

ServerStepExpected(c) ==
    Accepted(getBackendTemplatePath(c), LAMBDA p : serverFilter(c, p)) \o
    Accepted(getCommonBackendTemplatePath, LAMBDA p : commonFilter(c, p)) \o
    (IF c.docker THEN Accepted(getDockerTemplatePath("server"), LAMBDA p : TRUE) ELSE <<>>)

ServerStepExact ==
    \A r \in Runs :
        (pc[r] = "server" /\ pc'[r] \in {"shared", "rootFiles"}) =>
            LET c == config[r]
                expected == ServerStepExpected(c)
            IN /\ Appended(r) = joinAll(createdPrefix(c, "server"), expected)
               /\ written'[r] \ written[r] = SeqToSet(joinAll(outputPath(c, "server"), expected))

\* C26: the paths the backend generator gets back from
\* processTemplateDirectory are exactly the files written, in the order
\* written: every template file its predicate accepts under its path
\* without the .ejs marker, and neither a file nor an entry for a template
\* file the predicate rejects.
C26_ExactList == [][ServerStepExact]_vars

\* the common template directories of the requested components that are
\* not on disk
CommonMissing(c) ==
    {d \in missing :
        \/ c.mode \in FrontendModes /\ d = getCommonFrontendTemplatePath
        \/ c.mode \in BackendModes /\ d = getCommonBackendTemplatePath}

\* C27: when the common template directory of a requested component is
\* missing on disk, a generate() that got past its existence check returns
\* success = false with a template-not-found error.
C27_MissingCommonFails ==
    \A r \in Runs :
        (result[r].returned /\ pc[r] = "returned" /\ cleanupCalls = <<>>
            /\ CommonMissing(config[r]) # {}
            /\ ErrAlreadyExists \notin SeqToSet(result[r].errors)) =>
                /\ ~result[r].success
                /\ SeqToSet(result[r].errors) \cap TemplateNotFoundErrors # {}

\* generate() has been called and is no longer running
GenerateEnded(r) ==
    Constructed(r) /\ pc[r] \in {"returned", "exited"} \cup PostSteps

\* C28: a generate() that has ended has returned a result, whichever step
\* failed; a returned result has success = true iff its errors are empty,
\* and a failed one carries exactly one message.
C28_ResultShape ==
    \A r \in Runs :
        /\ GenerateEnded(r) => result[r].returned
        /\ result[r].returned =>
              /\ result[r].success <=> result[r].errors = <<>>
              /\ ~result[r].success => Len(result[r].errors) = 1
              /\ result[r].errors = errors[r]

\* a generation whose CI/CD step threw after the root files were written
C28_Witness ==
    \E r \in Runs :
        /\ pc[r] = "returned"
        /\ ~result[r].success
        /\ result[r].errors = <<ErrFilesystem>>
        /\ <<"README.md">> \in SeqToSet(result[r].createdFiles)

ComponentDirectories == {"client", "server", "shared"}

\* C29: in every state of generate() and in the result it returns,
\* createdFiles names every file the run has written under the destination
\* root so far, and createdDirectories every component directory the run
\* has created.
C29_LogComplete ==
    \A r \in Runs :
        (pc[r] \in InGenerate \cup {"returned"} /\ cleanupCalls = <<>>) =>
            /\ written[r] \subseteq SeqToSet(createdFiles[r])
            /\ result[r].returned =>
                  written[r] \subseteq SeqToSet(result[r].createdFiles)
            /\ CreatedRoot(r) =>
                  {d \in ComponentDirectories : <<d>> \in fs.dirs}
                      \subseteq SeqToSet(createdDirectories[r])

NoDuplicates(files) ==
    \A i, j \in 1..Len(files) : i # j => files[i] # files[j]

\* C30: within one generation no output path is produced twice: createdFiles
\* never names a path more than once, so that no file written by one
\* template tree is overwritten from another.
C30_NoPathTwice ==
    \A r \in Runs : NoDuplicates(createdFiles[r])

====
